---- MODULE Spec2Model ----
(***************************************************************************)
(* A model of the tool-execution core of src/code_tools.py: the file       *)
(* mutation tool edit_tool, the process execution tool bash_tool and the   *)
(* batch dispatcher batch_tool.                                            *)
(*                                                                         *)
(* A text is a sequence of characters; a character is a one-element name   *)
(* ("a", "b", "CR" for carriage return, "LF" for line feed, " " ...).      *)
(* Times are in milliseconds.                                              *)
(***************************************************************************)
EXTENDS Integers, Sequences, FiniteSets, TLC

VARIABLES
    fileKind,     \* what is at file_path: "missing", "no_parent" (its directory is missing too), "dir", "file" or "binary"
    fileBytes,    \* the stored content of the file at file_path
    editCall,     \* the last edit_tool call: its arguments and the file before it
    editResult,   \* what the last edit_tool call returned
    mode,         \* which top-level tool has been called: "idle", "edit", "bash", "batch"
    bcall,        \* per slot: the bash_tool call running there
    proc,         \* per slot: the operating-system process spawned there
    spawned,      \* per slot: how many processes bash_tool has spawned
    invs,         \* the invocations handed to batch_tool
    nextTask,     \* index of the next task of the batch to take its first step
    tasks,        \* per invocation: the execute_tool task of the batch
    batchResult,  \* what batch_tool returned
    nbExt,        \* the extension of notebook_path: "ipynb" or "other"
    nbKind,       \* what is at notebook_path: "missing", "notebook" or "garbage"
    nbDoc,        \* the stored notebook: the JSON document in the file
    nbCall,       \* the last notebook_edit_tool call: its arguments and the storage before it
    nbResult,     \* what the last notebook_edit_tool call returned
    nbEdits,      \* how many notebook_edit_tool calls have been made
    nbGhost,      \* the initial document with the successful edits applied in order
    nbRead,       \* what the last notebook_read_tool call returned
    srch,         \* the last glob_tool or grep_tool call: its raw matches and its result
    viewed,       \* the last view_tool call: its arguments and what it returned
    atCall        \* the file and the notebook as they were when batch_tool was called

editVars == <<fileKind, fileBytes, editCall, editResult>>
bashVars == <<bcall, proc, spawned>>
batchVars == <<invs, nextTask, tasks, batchResult, atCall>>
nbVars == <<nbExt, nbKind, nbDoc, nbCall, nbResult, nbEdits, nbGhost, nbRead>>
searchVars == <<srch>>
viewVars == <<viewed>>
vars == <<fileKind, fileBytes, editCall, editResult, mode, bcall, proc, spawned,
          invs, nextTask, tasks, batchResult, nbExt, nbKind, nbDoc, nbCall, nbResult,
          nbEdits, nbGhost, nbRead, srch, viewed, atCall>>

\* ------------------------------------------------------------------ bounds

MaxFileLen == 3
MaxOldLen == 2
MaxNewLen == 1
MaxCmdLen == 3
MaxBatch == 2
MaxCells == 2
MaxEdits == 2
MaxBlocks == 3

\* ------------------------------------------------------------------ texts

FileChars == {"a", "b", "CR", "LF"}

RECURSIVE SeqsUpTo(_, _)
SeqsUpTo(S, n) ==
    IF n = 0 THEN {<<>>}
    ELSE LET shorter == SeqsUpTo(S, n - 1)
         IN  shorter \cup {Append(s, c) : s \in {t \in shorter : Len(t) = n - 1}, c \in S}

Min(a, b) == IF a <= b THEN a ELSE b

\* t occurs in s starting at index i (1-based)
IsAt(s, t, i) ==
    /\ i >= 1
    /\ i + Len(t) - 1 <= Len(s)
    /\ SubSeq(s, i, i + Len(t) - 1) = t

\* str.find: the least index >= from at which t occurs in s, 0 when there is none
Find(s, t, from) ==
    LET hits == {i \in from..Len(s) : IsAt(s, t, i)}
    IN  IF hits = {} THEN 0 ELSE CHOOSE i \in hits : \A j \in hits : i <= j

\* `t in s`
Contains(s, t) == Find(s, t, 1) # 0

\* str.count: the number of non-overlapping occurrences, scanning left to right
RECURSIVE CountFrom(_, _, _)
CountFrom(s, t, from) ==
    LET j == Find(s, t, from)
    IN  IF j = 0 THEN 0 ELSE 1 + CountFrom(s, t, j + Len(t))

Count(s, t) == CountFrom(s, t, 1)

\* str.replace(t, n, 1): the first occurrence of t replaced by n
ReplaceFirst(s, t, n) ==
    LET j == Find(s, t, 1)
    IN  IF j = 0 THEN s
        ELSE SubSeq(s, 1, j - 1) \o n \o SubSeq(s, j + Len(t), Len(s))

\* open(path, 'r').read(): text mode with universal newlines, CR LF and a lone
\* CR both read as LF
RECURSIVE ReadText(_)
ReadText(b) ==
    IF b = <<>> THEN <<>>
    ELSE IF Head(b) = "CR"
         THEN <<"LF">> \o ReadText(IF Len(b) > 1 /\ b[2] = "LF"
                                   THEN Tail(Tail(b)) ELSE Tail(b))
         ELSE <<Head(b)>> \o ReadText(Tail(b))

\* open(path, 'w').write(text): LF is written as os.linesep, which is LF on POSIX
WriteText(t) == t

\* ------------------------------------------------------------------ edit_tool

NoEdit == [old |-> <<>>, new |-> <<>>, preKind |-> "none", preBytes |-> <<>>]

EditCreateNoMakedirs(new) ==
    IF fileKind \in {"dir", "no_parent"}
    THEN /\ editResult' = "fault"
         /\ UNCHANGED <<fileKind, fileBytes>>
    ELSE /\ fileKind' = "file"
         /\ fileBytes' = WriteText(new)
         /\ editResult' = "created"

\* lines 287-296: makedirs creates the missing parent directories, then the file
\* is opened for writing, which truncates an existing file
EditCreate(new) ==
    IF fileKind = "dir"
    THEN /\ editResult' = "fault"            \* open() raises, caught at line 326
         /\ UNCHANGED <<fileKind, fileBytes>>
    ELSE /\ fileKind' = "file"
         /\ fileBytes' = WriteText(new)
         /\ editResult' = "created"

EditExisting(old, new) ==
    LET content == ReadText(fileBytes)
    IN  IF fileKind \in {"missing", "no_parent"}
        THEN editResult' = "not_exist" /\ UNCHANGED <<fileKind, fileBytes>>
        ELSE IF fileKind = "dir"
        THEN editResult' = "is_dir" /\ UNCHANGED <<fileKind, fileBytes>>
        ELSE IF ~Contains(content, old)
        THEN editResult' = "not_found" /\ UNCHANGED <<fileKind, fileBytes>>
        ELSE IF Count(content, old) > 1
        THEN editResult' = "not_unique" /\ UNCHANGED <<fileKind, fileBytes>>
        ELSE /\ fileBytes' = WriteText(ReplaceFirst(content, old, new))
             /\ editResult' = "edited"
             /\ UNCHANGED fileKind

edit_tool(old, new) ==
    /\ mode = "idle"
    /\ mode' = "edit"
    /\ editCall' = [old |-> old, new |-> new, preKind |-> fileKind, preBytes |-> fileBytes]
    /\ IF old = <<>> THEN EditCreate(new) ELSE EditExisting(old, new)
    /\ Len(fileBytes') <= MaxFileLen
    /\ UNCHANGED <<bcall, proc, spawned, batchVars, nbVars, searchVars, viewVars>>

\* lines 342-348: makedirs, then the file is opened for writing and written
ReplaceWrite(content) ==
    IF fileKind = "dir"
    THEN editResult' = "fault" /\ UNCHANGED <<fileKind, fileBytes>>
    ELSE /\ fileKind' = "file"
         /\ fileBytes' = WriteText(content)
         /\ editResult' = "written"

\* replace_tool: the whole file overwritten
replace_tool(content) ==
    /\ mode = "idle"
    /\ mode' = "edit"
    /\ editCall' = [old |-> <<>>, new |-> content, preKind |-> fileKind, preBytes |-> fileBytes]
    /\ ReplaceWrite(content)
    /\ UNCHANGED <<bcall, proc, spawned, batchVars, nbVars, searchVars, viewVars>>

ReplaceTool == \E content \in SeqsUpTo(FileChars, MaxNewLen) : replace_tool(content)

\* edit_tool called with an empty old_string
CreateTool == \E new \in SeqsUpTo(FileChars, MaxNewLen) : edit_tool(<<>>, new)

EditTool == \E old \in SeqsUpTo(FileChars, MaxOldLen), new \in SeqsUpTo(FileChars, MaxNewLen) :
                edit_tool(old, new)

\* ------------------------------------------------------------------ bash_tool

Slots == 1..MaxBatch

DefaultTimeoutSec == 1800
MaxTimeoutSec == 600
MsPerSec == 1000

CmdChars == {"n", "c", "x", " "}

\* the characters the regular expression class \w matches
WordChars ==
    {"a", "b", "c", "d", "e", "f", "g", "h", "i", "j", "k", "l", "m", "n", "o", "p",
     "q", "r", "s", "t", "u", "v", "w", "x", "y", "z", "0", "1", "2", "3", "4", "5",
     "6", "7", "8", "9", "_"}

banned_commands ==
    << <<"a", "l", "i", "a", "s">>, <<"c", "u", "r", "l">>,
       <<"c", "u", "r", "l", "i", "e">>, <<"w", "g", "e", "t">>,
       <<"a", "x", "e", "l">>, <<"a", "r", "i", "a", "2", "c">>, <<"n", "c">>,
       <<"t", "e", "l", "n", "e", "t">>, <<"l", "y", "n", "x">>, <<"w", "3", "m">>,
       <<"l", "i", "n", "k", "s">>, <<"h", "t", "t", "p", "i", "e">>, <<"x", "h">>,
       <<"h", "t", "t", "p", "-", "p", "r", "o", "m", "p", "t">>,
       <<"c", "h", "r", "o", "m", "e">>, <<"f", "i", "r", "e", "f", "o", "x">>,
       <<"s", "a", "f", "a", "r", "i">> >>

\* the character of s at index p is a word character (none outside the string)
IsWordAt(s, p) == p >= 1 /\ p <= Len(s) /\ s[p] \in WordChars

\* \b just before index p: exactly one of the two neighbours is a word character
WordBoundary(s, p) == IsWordAt(s, p - 1) # IsWordAt(s, p)

\* re.search(rf'\b{re.escape(banned)}\b', command)
SearchWholeWord(command, name) ==
    \E i \in 1..Len(command) :
        /\ IsAt(command, name, i)
        /\ WordBoundary(command, i)
        /\ WordBoundary(command, i + Len(name))

IsBannedAtStart(command) ==
    \E k \in 1..Len(banned_commands) :
        LET name == banned_commands[k]
        IN  IsAt(command, name, 1) /\ WordBoundary(command, 1 + Len(name))

\* the scan of lines 374-376: some banned name matches as a whole word
IsBanned(command) ==
    \E k \in 1..Len(banned_commands) : SearchWholeWord(command, banned_commands[k])

\* the timeout argument: not given (None), or a number of milliseconds
NoTimeout == [given |-> FALSE, ms |-> 0]
TimeoutInputs ==
    {NoTimeout} \cup {[given |-> TRUE, ms |-> t] : t \in {-1, 0, 100, 600000, 600001}}

\* max_timeout of lines 363-365, in milliseconds; `if timeout:` is false for None and 0
EffectiveBudget(timeout) ==
    IF timeout.given /\ timeout.ms # 0
    THEN Min(timeout.ms, MaxTimeoutSec * MsPerSec)
    ELSE DefaultTimeoutSec * MsPerSec

\* what a spawned command does: how long it runs before it exits by itself (or
\* forever), and whether it ignores SIGTERM
ProcBehaviours ==
    {[forever |-> FALSE, duration |-> d, ignoresTerm |-> g] :
        d \in {50, 5000, 700000}, g \in BOOLEAN}
    \cup {[forever |-> TRUE, duration |-> 0, ignoresTerm |-> g] : g \in BOOLEAN}

NoProc == [state |-> "none", forever |-> FALSE, duration |-> 0, ignoresTerm |-> FALSE,
           termSent |-> FALSE]

NoResult == [kind |-> "none", keys |-> {}]
IdleCall == [pc |-> "idle", command |-> <<>>, timeout |-> NoTimeout, budget |-> 0,
             result |-> NoResult]

ErrorResult(kind) == [kind |-> kind, keys |-> {"error"}]
ProcessResult == [kind |-> "completed", keys |-> {"exitCode", "stdout", "stderr", "output"}]

\* asyncio.wait_for(process.communicate(), timeout=max_timeout) returns in time
CompletesWithin(p, budget) == ~p.forever /\ p.duration < budget

\* bash_tool up to its first suspension: the budget, the denylist scan, the spawn
BashBegin(i, command, timeout) ==
    LET call == [pc |-> "waiting", command |-> command, timeout |-> timeout,
                 budget |-> EffectiveBudget(timeout), result |-> NoResult]
    IN  /\ bcall[i].pc = "idle"
        /\ IF IsBanned(command)
           THEN /\ bcall' = [bcall EXCEPT ![i] = [call EXCEPT !.pc = "returned",
                                                  !.result = ErrorResult("denied")]]
                /\ UNCHANGED <<proc, spawned>>
           ELSE \/ \E b \in ProcBehaviours :
                      /\ proc' = [proc EXCEPT ![i] =
                                    [state |-> "running", forever |-> b.forever,
                                     duration |-> b.duration, ignoresTerm |-> b.ignoresTerm,
                                     termSent |-> FALSE]]
                      /\ spawned' = [spawned EXCEPT ![i] = @ + 1]
                      /\ bcall' = [bcall EXCEPT ![i] = call]
                \/ /\ bcall' = [bcall EXCEPT ![i] = [call EXCEPT !.pc = "returned",
                                                     !.result = ErrorResult("fault")]]
                   /\ UNCHANGED <<proc, spawned>>

\* the process exits within the budget: lines 387-398
BashComplete(i) ==
    /\ bcall[i].pc = "waiting"
    /\ proc[i].state = "running"
    /\ CompletesWithin(proc[i], bcall[i].budget)
    /\ proc' = [proc EXCEPT ![i].state = "exited"]
    /\ bcall' = [bcall EXCEPT ![i].pc = "returned", ![i].result = ProcessResult]
    /\ UNCHANGED spawned

BashTimeoutRespawns(i) ==
    /\ bcall[i].pc = "waiting"
    /\ proc[i].state = "running"
    /\ ~CompletesWithin(proc[i], bcall[i].budget)
    /\ proc' = [proc EXCEPT ![i].duration = 0, ![i].forever = FALSE]
    /\ spawned' = [spawned EXCEPT ![i] = @ + 1]
    /\ bcall' = [bcall EXCEPT ![i].pc = "returned", ![i].result = ProcessResult]

\* asyncio.TimeoutError: lines 399-401, process.terminate() sends SIGTERM
BashTimeout(i) ==
    /\ bcall[i].pc = "waiting"
    /\ proc[i].state = "running"
    /\ ~CompletesWithin(proc[i], bcall[i].budget)
    /\ proc' = [proc EXCEPT ![i].termSent = TRUE]
    /\ bcall' = [bcall EXCEPT ![i].pc = "returned", ![i].result = ErrorResult("timeout")]
    /\ UNCHANGED spawned

\* the operating system delivers SIGTERM to a process that does not ignore it
ProcTerminated(i) ==
    /\ proc[i].state = "running"
    /\ proc[i].termSent
    /\ ~proc[i].ignoresTerm
    /\ proc' = [proc EXCEPT ![i].state = "exited"]
    /\ UNCHANGED <<mode, bcall, spawned>>
    /\ UNCHANGED <<editVars, nbVars, searchVars, viewVars>>
    /\ UNCHANGED batchVars

\* a process bash_tool no longer waits for runs to its own end
ProcExit(i) ==
    /\ proc[i].state = "running"
    /\ bcall[i].pc = "returned"
    /\ ~proc[i].forever
    /\ proc' = [proc EXCEPT ![i].state = "exited"]
    /\ UNCHANGED <<mode, bcall, spawned>>
    /\ UNCHANGED <<editVars, nbVars, searchVars, viewVars>>
    /\ UNCHANGED batchVars

\* bash_tool called directly, in slot 1
BashCall ==
    /\ mode = "idle"
    /\ mode' = "bash"
    /\ \E command \in SeqsUpTo(CmdChars, MaxCmdLen), timeout \in TimeoutInputs :
           BashBegin(1, command, timeout)
    /\ UNCHANGED <<editVars, nbVars, searchVars, viewVars>>
    /\ UNCHANGED batchVars

BashReturn ==
    /\ mode = "bash"
    /\ BashComplete(1) \/ BashTimeout(1)
    /\ UNCHANGED mode
    /\ UNCHANGED <<editVars, nbVars, searchVars, viewVars>>
    /\ UNCHANGED batchVars

\* ------------------------------------------------------------------ batch_tool

ToolsWithBatch ==
    {"glob_tool", "grep_tool", "ls_tool", "view_tool", "edit_tool", "replace_tool",
     "bash_tool", "notebook_read_tool", "notebook_edit_tool", "agent_tool", "batch_tool"}

\* the registry of batch_tool, lines 581-592: every tool but batch_tool itself
tools_map ==
    {"glob_tool", "grep_tool", "ls_tool", "view_tool", "edit_tool", "replace_tool",
     "bash_tool", "notebook_read_tool", "notebook_edit_tool", "agent_tool"}

\* An entry of the invocations list: a mapping with a tool_name and an input, or
\* something that is no mapping at all. fits: the input mapping matches the
\* parameters of the tool; command and timeout: the input of a bash_tool.
Invocation(shape, name, fits, command, timeout) ==
    [shape |-> shape, tool_name |-> name, fits |-> fits, command |-> command,
     timeout |-> timeout]

BatchInvocations ==
    {Invocation("not_a_mapping", "", FALSE, <<>>, NoTimeout),
     Invocation("mapping", "no_such_tool", TRUE, <<>>, NoTimeout),
     Invocation("mapping", "agent_tool", FALSE, <<>>, NoTimeout),
     Invocation("mapping", "agent_tool", TRUE, <<>>, NoTimeout),
     Invocation("mapping", "batch_tool", TRUE, <<>>, NoTimeout)}
    \cup {Invocation("mapping", "bash_tool", TRUE, c, t) :
            c \in {<<"n", "c">>, <<"x">>},
            t \in {NoTimeout, [given |-> TRUE, ms |-> 100]}}

AgentResult == [kind |-> "agent", keys |-> {"taskCompleted", "agentResponse"}]

\* what a batch_tool run inside a batch would return: lines 631-634
NestedBatchResult == [kind |-> "batch", keys |-> {"description", "results"}]

\* await tool_func(**tool_input), line 608, for the tools that return at once
RunTool(name) == IF name = "batch_tool" THEN NestedBatchResult ELSE AgentResult

NoEntry == [tool_name |-> "", status |-> "none", error |-> "", result |-> NoResult]
PendingTask == [pc |-> "pending", entry |-> NoEntry]

SuccessEntry(name, result) ==
    [tool_name |-> name, status |-> "success", error |-> "", result |-> result]
ErrorEntry(name, error) ==
    [tool_name |-> name, status |-> "error", error |-> error, result |-> NoResult]

Done(entry) == [pc |-> "done", entry |-> entry]

ToolNotFoundRaises(name) == [pc |-> "raised", entry |-> NoEntry]

\* execute_tool for a tool_name that is not in tools_map: lines 599-604
ToolNotFound(name) == Done(ErrorEntry(name, "tool_not_found"))

NoBatchResult == [kind |-> "none", results |-> <<>>]

\* batch_tool is called with invocations of the set S: one execute_tool task per
\* entry, none has run yet
BatchCallOf(S) ==
    /\ mode = "idle"
    /\ mode' = "batch"
    /\ \E n \in 0..MaxBatch :
         \E list \in [1..n -> S] :
            /\ invs' = list
            /\ tasks' = [i \in 1..n |-> PendingTask]
    /\ nextTask' = 1
    /\ atCall' = [fileKind |-> fileKind, fileBytes |-> fileBytes,
                  nbKind |-> nbKind, nbDoc |-> nbDoc]
    /\ UNCHANGED <<batchResult, bcall, proc, spawned>>
    /\ UNCHANGED <<editVars, nbVars, searchVars, viewVars>>

BatchCall == BatchCallOf(BatchInvocations)

\* the tools that change a file
FileTools == {"edit_tool", "replace_tool", "notebook_edit_tool"}

\* an invocation of one of them whose input fits its parameters
IsFileInvocation(inv) ==
    inv.shape = "mapping" /\ inv.fits /\ inv.tool_name \in FileTools

StartOrderReversed(k) == Len(invs) + 1 - k

\* lines 623-627: the tasks are handed to gather in the order of the invocations
\* and the event loop gives them their first step in that order; the k-th task to
\* start is the one of invocation k
StartOrder(k) == k

\* execute_tool(invocation) up to its first suspension; the event loop starts the
\* tasks of gather in submission order
TaskStart ==
    LET i == StartOrder(nextTask)
        inv == invs[i]
    IN  /\ mode = "batch"
        /\ nextTask <= Len(invs)
        /\ ~IsFileInvocation(inv)
        /\ nextTask' = nextTask + 1
        /\ IF inv.shape # "mapping"
           THEN \* invocation.get raises outside the try of execute_tool
                /\ tasks' = [tasks EXCEPT ![i] = [pc |-> "raised", entry |-> NoEntry]]
                /\ UNCHANGED bashVars
           ELSE IF inv.tool_name \notin tools_map
           THEN /\ tasks' = [tasks EXCEPT ![i] = ToolNotFound(inv.tool_name)]
                /\ UNCHANGED bashVars
           ELSE IF ~inv.fits
           THEN /\ tasks' = [tasks EXCEPT ![i] = Done(ErrorEntry(inv.tool_name, "exec_error"))]
                /\ UNCHANGED bashVars
           ELSE IF inv.tool_name = "bash_tool"
           THEN /\ BashBegin(i, inv.command, inv.timeout)
                /\ tasks' = [tasks EXCEPT ![i] =
                               IF bcall'[i].pc = "returned"
                               THEN Done(SuccessEntry(inv.tool_name, bcall'[i].result))
                               ELSE [pc |-> "waiting", entry |-> NoEntry]]
           ELSE /\ tasks' = [tasks EXCEPT ![i] =
                               Done(SuccessEntry(inv.tool_name, RunTool(inv.tool_name)))]
                /\ UNCHANGED bashVars
        /\ UNCHANGED <<mode, invs, batchResult, atCall>>
        /\ UNCHANGED <<editVars, nbVars, searchVars, viewVars>>

\* the bash_tool of task i returns and execute_tool wraps its result: lines 608-614
TaskBashReturn(i) ==
    /\ mode = "batch"
    /\ nextTask > Len(invs)
    /\ i \in 1..Len(invs)
    /\ tasks[i].pc = "waiting"
    /\ BashComplete(i) \/ BashTimeout(i)
    /\ tasks' = [tasks EXCEPT ![i] = Done(SuccessEntry(invs[i].tool_name, bcall'[i].result))]
    /\ UNCHANGED <<mode, invs, nextTask, batchResult, atCall>>
    /\ UNCHANGED <<editVars, nbVars, searchVars, viewVars>>

Raised == {i \in 1..Len(invs) : tasks[i].pc = "raised"}
Settled == {i \in 1..Len(invs) : tasks[i].pc \in {"done", "raised"}}

\* what `await asyncio.gather(*tasks)` hands to batch_tool once it resumes
GatherOutcome ==
    IF Raised # {}
    THEN [kind |-> "error", results |-> <<>>]
    ELSE [kind |-> "results", results |-> [i \in 1..Len(invs) |-> tasks[i].entry]]

\* gather resumes batch_tool: with the first exception of a task as soon as there
\* is one, else with all the results once every task is done
GatherReady ==
    /\ nextTask > Len(invs)
    /\ Raised # {} \/ Settled = 1..Len(invs)

BatchReturn ==
    /\ mode = "batch"
    /\ batchResult.kind = "none"
    /\ GatherReady
    /\ batchResult' = GatherOutcome
    /\ UNCHANGED <<mode, invs, nextTask, tasks, atCall>>
    /\ UNCHANGED bashVars
    /\ UNCHANGED <<editVars, nbVars, searchVars, viewVars>>

\* ------------------------------------------------------------------ glob_tool, grep_tool

\* the cap of lines 54-55 and 143-144
MaxResults == 100

\* A candidate file: whether it still exists when the matches are sorted, its
\* modification time, and what the search finds in it ("match", "no_match",
\* "unreadable"). id is its place among the candidates.
File(id, exists, mtime, hit) == [id |-> id, exists |-> exists, mtime |-> mtime, hit |-> hit]

\* the candidates are given as runs of equal files
Block(exists, mtime, hit, count) ==
    [exists |-> exists, mtime |-> mtime, hit |-> hit, count |-> count]

RECURSIVE Expand(_, _)
Expand(blocks, firstId) ==
    IF blocks = <<>> THEN <<>>
    ELSE LET b == Head(blocks)
         IN  [k \in 1..b.count |-> File(firstId + k - 1, b.exists, b.mtime, b.hit)]
             \o Expand(Tail(blocks), firstId + b.count)

BlockSizes == {1, MaxResults - 1}

\* runs of files that match: gone by the time of the sort, older or newer
MatchBlocks ==
    {Block(FALSE, 0, "match", n) : n \in BlockSizes}
    \cup {Block(TRUE, t, "match", n) : t \in {1, 2}, n \in BlockSizes}

\* files in which grep finds nothing, or which it cannot read
OtherBlocks == {Block(TRUE, 2, h, 1) : h \in {"no_match", "unreadable"}}

\* the sort key of lines 51 and 138
SortKey(f) == IF f.exists THEN f.mtime ELSE 0

MaxKey(files) ==
    CHOOSE k \in {SortKey(files[i]) : i \in 1..Len(files)} :
        \A i \in 1..Len(files) : SortKey(files[i]) <= k

\* list.sort(key=..., reverse=True): by descending key, files of equal key in
\* the order they had
RECURSIVE SortByMtime(_)
SortByMtime(files) ==
    IF files = <<>> THEN <<>>
    ELSE LET k == MaxKey(files)
             Newest(f) == SortKey(f) = k
             Older(f) == SortKey(f) # k
         IN  SelectSeq(files, Newest) \o SortByMtime(SelectSeq(files, Older))

\* matching_files[:100]
Cap(files) == SubSeq(files, 1, Min(Len(files), MaxResults))

SearchResultCapFirst(matching_files) ==
    [kind |-> "result", filenames |-> SortByMtime(Cap(matching_files)),
     numFiles |-> Len(Cap(matching_files)), truncated |-> Len(matching_files) > MaxResults]

\* lines 50-64 and 136-153: sort, flag, cap, count
SearchResult(matching_files) ==
    LET sorted == SortByMtime(matching_files)
    IN  [kind |-> "result", filenames |-> Cap(sorted), numFiles |-> Len(Cap(sorted)),
         truncated |-> Len(sorted) > MaxResults]

MatchingUntilUnreadable(candidates) ==
    LET bad == {i \in 1..Len(candidates) : candidates[i].hit = "unreadable"}
        stop == IF bad = {} THEN Len(candidates)
                ELSE (CHOOSE i \in bad : \A j \in bad : i <= j) - 1
        Found(f) == f.hit = "match"
    IN  SelectSeq(SubSeq(candidates, 1, stop), Found)

\* the files in which the pattern is found: rg -l lists them, the fallback of
\* lines 109-134 reads every candidate and skips those it cannot read
IsMatch(f) == f.hit = "match"
Matching(candidates) == SelectSeq(candidates, IsMatch)

NoSearchCall == [tool |-> "none", candidates |-> <<>>,
                 result |-> [kind |-> "none", filenames |-> <<>>, numFiles |-> 0,
                             truncated |-> FALSE]]

\* glob_tool: every path glob returns is a match
glob_tool(blocks) ==
    LET matching_files == Expand(blocks, 1)
    IN  /\ mode = "idle"
        /\ mode' = "search"
        /\ srch' = [tool |-> "glob_tool", candidates |-> matching_files,
                    result |-> SearchResult(matching_files)]
        /\ UNCHANGED <<editVars, bashVars, batchVars, nbVars, viewVars>>

grep_tool(blocks, has_ripgrep) ==
    LET all_files == Expand(blocks, 1)
    IN  /\ mode = "idle"
        /\ mode' = "search"
        /\ srch' = [tool |-> IF has_ripgrep THEN "grep_tool_rg" ELSE "grep_tool_walk",
                    candidates |-> all_files,
                    result |-> SearchResult(Matching(all_files))]
        /\ UNCHANGED <<editVars, bashVars, batchVars, nbVars, viewVars>>

GlobTool == \E blocks \in SeqsUpTo(MatchBlocks, MaxBlocks) : glob_tool(blocks)

GrepTool ==
    \E blocks \in SeqsUpTo(MatchBlocks \cup OtherBlocks, MaxBlocks), has_ripgrep \in BOOLEAN :
        grep_tool(blocks, has_ripgrep)

\* ------------------------------------------------------------------ notebooks

\* cell_type not given: None, like the empty string, is false in `cell_type or ...`
NoType == ""

\* str.split('\n'): the pieces of a text between its line feeds
RECURSIVE Split(_)
Split(text) ==
    LET j == Find(text, <<"LF">>, 1)
    IN  IF j = 0 THEN <<text>>
        ELSE <<SubSeq(text, 1, j - 1)>> \o Split(SubSeq(text, j + 1, Len(text)))

\* A cell as the Python dict in memory. outputs: "absent" (no such key), "empty"
\* ([]) or "some"; execution_count: "absent", "None" or "1".
Cell(type, source, metadata, outputs, count) ==
    [cell_type |-> type, source |-> source, metadata |-> metadata, outputs |-> outputs,
     execution_count |-> count]

Notebook(cells, metadata, minor) ==
    [cells |-> cells, metadata |-> metadata, nbformat |-> 4, nbformat_minor |-> minor]

\* the notebook of lines 466-489
NewNotebook == Notebook(<<>>, "python3_kernelspec", 4)

NoDoc == Notebook(<<>>, "none", 0)

\* json.dump writes None as null, json.load reads null as None
DumpCell(c) == [c EXCEPT !.execution_count = IF @ = "None" THEN "null" ELSE @]
LoadCell(c) == [c EXCEPT !.execution_count = IF @ = "null" THEN "None" ELSE @]
JsonDump(nb) == [nb EXCEPT !.cells = [i \in 1..Len(nb.cells) |-> DumpCell(nb.cells[i])]]
JsonLoad(doc) == [doc EXCEPT !.cells = [i \in 1..Len(doc.cells) |-> LoadCell(doc.cells[i])]]

\* what an edit mode gives: the mutated notebook and the message, or an error
Outcome(ok, nb, kind, number, type) ==
    [ok |-> ok, nb |-> nb, kind |-> kind, number |-> number, cell_type |-> type]
Failure(kind) == Outcome(FALSE, NoDoc, kind, 0, "")
NoOutcome == Outcome(FALSE, NoDoc, "none", 0, "")

ResetIfExplicitCode(cell, given, used) ==
    IF given = "code"
    THEN [cell EXCEPT !.outputs = "empty", !.execution_count = "None"]
    ELSE cell

\* lines 508-511: a cell whose type is now code loses its outputs
ResetIfCode(cell, given, used) ==
    IF used = "code"
    THEN [cell EXCEPT !.outputs = "empty", !.execution_count = "None"]
    ELSE cell

NbReplaceFresh(nb, number, new_source, cell_type) ==
    IF number >= Len(nb.cells) THEN Failure("no_such_cell")
    ELSE LET existing == nb.cells[number + 1]
             used == IF cell_type # NoType THEN cell_type ELSE existing.cell_type
             fresh == IF used = "code"
                      THEN Cell(used, Split(new_source), "empty", "empty", "None")
                      ELSE Cell(used, Split(new_source), "empty", "absent", "absent")
         IN  Outcome(TRUE, [nb EXCEPT !.cells[number + 1] = fresh], "replaced", number, "")

\* edit_mode replace: lines 496-513; number is 0-based
NbReplace(nb, number, new_source, cell_type) ==
    IF number >= Len(nb.cells) THEN Failure("no_such_cell")
    ELSE LET existing == nb.cells[number + 1]
             used == IF cell_type # NoType THEN cell_type ELSE existing.cell_type
             updated == [existing EXCEPT !.source = Split(new_source), !.cell_type = used]
         IN  Outcome(TRUE,
                     [nb EXCEPT !.cells[number + 1] = ResetIfCode(updated, cell_type, used)],
                     "replaced", number, "")

\* the cell of lines 520-529
NewCell(new_source, cell_type) ==
    IF cell_type = "code"
    THEN Cell(cell_type, Split(new_source), "empty", "empty", "None")
    ELSE Cell(cell_type, Split(new_source), "empty", "absent", "absent")

InsertAtBeforeLast(cells, number, cell) ==
    LET at == IF number >= Len(cells) /\ Len(cells) > 0 THEN Len(cells) - 1 ELSE Min(number, Len(cells))
    IN  SubSeq(cells, 1, at) \o <<cell>> \o SubSeq(cells, at + 1, Len(cells))

\* list.insert after the clamp of lines 532-533
InsertAt(cells, number, cell) ==
    LET at == IF number > Len(cells) THEN Len(cells) ELSE number
    IN  SubSeq(cells, 1, at) \o <<cell>> \o SubSeq(cells, at + 1, Len(cells))

\* edit_mode insert: lines 515-536
NbInsert(nb, number, new_source, cell_type) ==
    IF cell_type = NoType THEN Failure("type_required")
    ELSE Outcome(TRUE,
                 [nb EXCEPT !.cells = InsertAt(nb.cells, number, NewCell(new_source, cell_type))],
                 "inserted", Min(number, Len(nb.cells)), cell_type)

NbDeleteLast(nb, number) ==
    IF number >= Len(nb.cells) THEN Failure("no_such_cell")
    ELSE Outcome(TRUE, [nb EXCEPT !.cells = SubSeq(nb.cells, 1, Len(nb.cells) - 1)],
                 "deleted", number, nb.cells[Len(nb.cells)].cell_type)

\* edit_mode delete: lines 538-544
NbDelete(nb, number) ==
    IF number >= Len(nb.cells) THEN Failure("no_such_cell")
    ELSE Outcome(TRUE,
                 [nb EXCEPT !.cells = SubSeq(nb.cells, 1, number)
                                      \o SubSeq(nb.cells, number + 2, Len(nb.cells))],
                 "deleted", number, nb.cells[number + 1].cell_type)

\* lines 491-547 on the notebook in memory
NbApply(nb, number, new_source, cell_type, edit_mode) ==
    IF number < 0 THEN Failure("negative_cell_number")
    ELSE IF edit_mode = "replace" THEN NbReplace(nb, number, new_source, cell_type)
    ELSE IF edit_mode = "insert" THEN NbInsert(nb, number, new_source, cell_type)
    ELSE IF edit_mode = "delete" THEN NbDelete(nb, number)
    ELSE Failure("invalid_edit_mode")

NbLoadExistingOnly(kind, doc) == IF kind = "notebook" THEN JsonLoad(doc) ELSE NoDoc

\* lines 460-489: the stored notebook parsed, or a new one when there is no file
NbLoad(kind, doc) == IF kind = "notebook" THEN JsonLoad(doc) ELSE NewNotebook

\* lines 449-555 up to the write: the checks, the load and the edit
NbOutcome(ext, kind, doc, number, new_source, cell_type, edit_mode) ==
    IF kind = "missing" /\ edit_mode # "insert" THEN Failure("not_exist")
    ELSE IF ext # "ipynb" THEN Failure("not_ipynb")
    ELSE IF kind = "garbage" THEN Failure("fault")      \* json.load raises
    ELSE LET nb == NbLoad(kind, doc)
         IN  IF nb = NoDoc THEN Failure("fault")
             ELSE NbApply(nb, number, new_source, cell_type, edit_mode)

NbStoredAlways(out, kind, doc) ==
    IF out.kind \in {"not_exist", "not_ipynb", "fault"}
    THEN [kind |-> kind, doc |-> doc]
    ELSE [kind |-> "notebook", doc |-> JsonDump(IF out.ok THEN out.nb ELSE NbLoad(kind, doc))]

NbStoredUnlessDelete(out, kind, doc) ==
    IF out.ok /\ out.kind # "deleted"
    THEN [kind |-> "notebook", doc |-> JsonDump(out.nb)]
    ELSE [kind |-> kind, doc |-> doc]

\* lines 549-551: a successful edit is written to the file, an error returns
\* before the write
NbStored(out, kind, doc) ==
    IF out.ok
    THEN [kind |-> "notebook", doc |-> JsonDump(out.nb)]
    ELSE [kind |-> kind, doc |-> doc]

NoNbCall == [number |-> 0, new_source |-> <<>>, cell_type |-> NoType, edit_mode |-> "none",
             preKind |-> "none", preDoc |-> NoDoc]
NoRead == [kind |-> "none", nb |-> NoDoc]

\* notebook_edit_tool from its first line to its return: it never suspends
NbEdit(number, new_source, cell_type, edit_mode) ==
    LET out == NbOutcome(nbExt, nbKind, nbDoc, number, new_source, cell_type, edit_mode)
        stored == NbStored(out, nbKind, nbDoc)
    IN  /\ nbEdits' = nbEdits + 1
        /\ nbCall' = [number |-> number, new_source |-> new_source, cell_type |-> cell_type,
                      edit_mode |-> edit_mode, preKind |-> nbKind, preDoc |-> nbDoc]
        /\ nbResult' = [out EXCEPT !.nb = NoDoc]
        /\ nbKind' = stored.kind
        /\ nbDoc' = stored.doc
        /\ nbGhost' = IF out.ok
                      THEN NbApply(IF nbGhost = NoDoc THEN NewNotebook ELSE nbGhost,
                                   number, new_source, cell_type, edit_mode).nb
                      ELSE nbGhost
        /\ nbRead' = NoRead
        /\ UNCHANGED nbExt

notebook_edit_tool(number, new_source, cell_type, edit_mode) ==
    /\ mode \in {"idle", "notebook"}
    /\ nbEdits < MaxEdits
    /\ NbEdit(number, new_source, cell_type, edit_mode)
    /\ Len(nbDoc'.cells) <= MaxCells
    /\ mode' = "notebook"
    /\ UNCHANGED <<editVars, bashVars, batchVars, searchVars, viewVars>>

NewSources == {<<"x", "LF", "y">>}

NotebookEdit ==
    \E number \in -1..(MaxCells + 1), new_source \in NewSources,
       cell_type \in {NoType, "code", "markdown"},
       edit_mode \in {"replace", "insert", "delete", "append"} :
          notebook_edit_tool(number, new_source, cell_type, edit_mode)

\* notebook_read_tool: lines 407-430
NotebookRead ==
    /\ mode \in {"idle", "notebook"}
    /\ nbRead = NoRead
    /\ mode' = "notebook"
    /\ nbRead' = IF nbKind = "missing" THEN [kind |-> "not_exist", nb |-> NoDoc]
                 ELSE IF nbExt # "ipynb" THEN [kind |-> "not_ipynb", nb |-> NoDoc]
                 ELSE IF nbKind = "garbage" THEN [kind |-> "fault", nb |-> NoDoc]
                 ELSE [kind |-> "notebook", nb |-> JsonLoad(nbDoc)]
    /\ UNCHANGED <<nbExt, nbKind, nbDoc, nbCall, nbResult, nbEdits, nbGhost>>
    /\ UNCHANGED <<editVars, bashVars, batchVars, searchVars, viewVars>>

\* ------------------------------------------------------------------ file tools in a batch

NoSnapshot == [fileKind |-> "none", fileBytes |-> <<>>, nbKind |-> "none", nbDoc |-> NoDoc]

\* the input of an invocation of a file tool
FileInvocation(name, input) ==
    [shape |-> "mapping", tool_name |-> name, fits |-> TRUE, command |-> <<>>,
     timeout |-> NoTimeout, input |-> input]

EditInput(old, new) == [old_string |-> old, new_string |-> new]
ReplaceInput(content) == [content |-> content]
NotebookInput(number, new_source, cell_type, edit_mode) ==
    [cell_number |-> number, new_source |-> new_source, cell_type |-> cell_type,
     edit_mode |-> edit_mode]

\* invocations on one file and on one notebook, and a command that runs meanwhile
FileInvocations ==
    {FileInvocation("edit_tool", EditInput(<<>>, <<"a">>)),
     FileInvocation("edit_tool", EditInput(<<"a">>, <<"b">>)),
     FileInvocation("edit_tool", EditInput(<<"b">>, <<"a">>)),
     FileInvocation("replace_tool", ReplaceInput(<<"b">>)),
     FileInvocation("notebook_edit_tool", NotebookInput(0, <<"z">>, "code", "insert")),
     FileInvocation("notebook_edit_tool", NotebookInput(0, <<"x", "LF", "y">>, "markdown", "replace")),
     FileInvocation("notebook_edit_tool", NotebookInput(0, <<>>, NoType, "delete")),
     Invocation("mapping", "bash_tool", TRUE, <<"x">>, [given |-> TRUE, ms |-> 100])}

BatchCallFiles == BatchCallOf(FileInvocations)

\* what execute_tool wraps: the message the file tool returned
FileToolResult(kind) == [kind |-> kind, keys |-> {}]

\* execute_tool(invocation) for a file tool: edit_tool, replace_tool and
\* notebook_edit_tool have no await, so the task runs from the read to the write
\* and to its entry in this one step
TaskStartFile ==
    LET i == StartOrder(nextTask)
        inv == invs[i]
    IN  /\ mode = "batch"
        /\ nextTask <= Len(invs)
        /\ IsFileInvocation(inv)
        /\ nextTask' = nextTask + 1
        /\ IF inv.tool_name = "edit_tool"
           THEN /\ editCall' = [old |-> inv.input.old_string, new |-> inv.input.new_string,
                                preKind |-> fileKind, preBytes |-> fileBytes]
                /\ IF inv.input.old_string = <<>>
                   THEN EditCreate(inv.input.new_string)
                   ELSE EditExisting(inv.input.old_string, inv.input.new_string)
                /\ tasks' = [tasks EXCEPT ![i] =
                               Done(SuccessEntry(inv.tool_name, FileToolResult(editResult')))]
                /\ UNCHANGED nbVars
           ELSE IF inv.tool_name = "replace_tool"
           THEN /\ editCall' = [old |-> <<>>, new |-> inv.input.content,
                                preKind |-> fileKind, preBytes |-> fileBytes]
                /\ ReplaceWrite(inv.input.content)
                /\ tasks' = [tasks EXCEPT ![i] =
                               Done(SuccessEntry(inv.tool_name, FileToolResult(editResult')))]
                /\ UNCHANGED nbVars
           ELSE /\ NbEdit(inv.input.cell_number, inv.input.new_source,
                          inv.input.cell_type, inv.input.edit_mode)
                /\ tasks' = [tasks EXCEPT ![i] =
                               Done(SuccessEntry(inv.tool_name, FileToolResult(nbResult'.kind)))]
                /\ UNCHANGED editVars
        /\ UNCHANGED <<mode, invs, batchResult, atCall>>
        /\ UNCHANGED <<bashVars, searchVars, viewVars>>

\* ------------------------------------------------------------------ view_tool

\* the default of limit, line 254, and the longest line shown, line 260
DefaultLimit == 2000
MaxLineWidth == 2000

\* offset or limit not given: None
NoArg == [given |-> FALSE, n |-> 0]
Arg(n) == [given |-> TRUE, n |-> n]

\* file.readlines() on text read with universal newlines: every line keeps its
\* line feed, a last line without one is a line too
ReadLines(text) ==
    LET pieces == Split(text)
        n == Len(pieces)
    IN  [i \in 1..(IF pieces[n] = <<>> THEN n - 1 ELSE n) |->
            IF i < n THEN pieces[i] \o <<"LF">> ELSE pieces[i]]

\* lines[start:stop] in Python: a negative stop counts from the end
Slice(lines, start, stop) ==
    LET n == Len(lines)
        to == IF stop < 0 THEN (IF stop + n < 0 THEN 0 ELSE stop + n) ELSE Min(stop, n)
    IN  SubSeq(lines, start + 1, to)

\* line.rstrip(): without the white space at its end
RECURSIVE RStrip(_)
RStrip(line) ==
    IF line # <<>> /\ line[Len(line)] \in {"LF", "CR"}
    THEN RStrip(SubSeq(line, 1, Len(line) - 1))
    ELSE line

\* lines 263-264: a line of more than 2000 characters is cut and marked
Shown(line) ==
    IF Len(line) > MaxLineWidth
    THEN RStrip(SubSeq(line, 1, MaxLineWidth) \o <<"... [truncated]">>)
    ELSE RStrip(line)

ViewResult(kind, lines) == [kind |-> kind, lines |-> lines]

\* lines 245-269 on the lines that were read
ViewLines(lines, offset, limit) ==
    LET from == IF offset.given /\ offset.n > 0 THEN offset.n ELSE 0
        count == IF limit.given THEN limit.n ELSE DefaultLimit
        shown == Slice(lines, from, from + count)
    IN  IF from >= Len(lines) THEN ViewResult("beyond_eof", <<>>)
        ELSE IF shown = <<>> THEN ViewResult("empty_file", <<>>)
        ELSE ViewResult("lines", [i \in 1..Len(shown) |->
                                    [number |-> from + i, text |-> Shown(shown[i])]])

NoView == [offset |-> NoArg, limit |-> NoArg, result |-> ViewResult("none", <<>>)]

view_tool(offset, limit) ==
    /\ mode = "idle"
    /\ mode' = "view"
    /\ viewed' = [offset |-> offset, limit |-> limit,
                  result |-> IF fileKind \in {"missing", "no_parent"}
                             THEN ViewResult("not_exist", <<>>)
                             ELSE IF fileKind = "dir" THEN ViewResult("is_dir", <<>>)
                             ELSE IF fileKind = "binary" THEN ViewResult("binary", <<>>)
                             ELSE ViewLines(ReadLines(ReadText(fileBytes)), offset, limit)]
    /\ UNCHANGED <<editVars, bashVars, batchVars, nbVars, searchVars>>

ViewTool ==
    \E offset \in {NoArg} \cup {Arg(n) : n \in -1..MaxFileLen},
       limit \in {NoArg} \cup {Arg(n) : n \in -1..2} :
          view_tool(offset, limit)

\* ------------------------------------------------------------------ specifications

InitIdle ==
    /\ mode = "idle"
    /\ editCall = NoEdit
    /\ editResult = "none"
    /\ bcall = [i \in Slots |-> IdleCall]
    /\ proc = [i \in Slots |-> NoProc]
    /\ spawned = [i \in Slots |-> 0]
    /\ invs = <<>>
    /\ nextTask = 1
    /\ tasks = <<>>
    /\ batchResult = NoBatchResult
    /\ atCall = NoSnapshot

NoNotebook ==
    /\ nbExt = "ipynb"
    /\ nbKind = "missing"
    /\ nbDoc = NoDoc
    /\ nbCall = NoNbCall
    /\ nbResult = NoOutcome
    /\ nbEdits = 0
    /\ nbGhost = NoDoc
    /\ nbRead = NoRead

NoSearch == srch = NoSearchCall /\ viewed = NoView

NoFile == fileKind = "missing" /\ fileBytes = <<>>

\* the file system before the first call: nothing (with or without the parent
\* directory), a directory or a file at file_path
InitEdit ==
    /\ InitIdle
    /\ NoNotebook
    /\ NoSearch
    /\ \/ NoFile
       \/ fileKind = "no_parent" /\ fileBytes = <<>>
       \/ fileKind = "dir" /\ fileBytes = <<>>
       \/ fileKind = "file" /\ fileBytes \in SeqsUpTo(FileChars, MaxFileLen)

NextEdit == EditTool \/ ReplaceTool

SpecEdit == InitEdit /\ [][NextEdit]_vars

\* the calls that write a whole file: edit_tool with an empty old_string, replace_tool
NextCreate == CreateTool \/ ReplaceTool

SpecCreate == InitEdit /\ [][NextCreate]_vars

InitBash == InitIdle /\ NoFile /\ NoNotebook /\ NoSearch

\* the cells a stored notebook holds before the first call: executed and fresh
\* code cells, and markdown cells, which carry no outputs
StoredCells ==
    {Cell("code", << <<"o">> >>, "tagged", "some", "1"),
     Cell("code", << <<"o">> >>, "tagged", "empty", "null"),
     Cell("markdown", << <<"o">> >>, "tagged", "absent", "absent")}

InitNotebook ==
    /\ InitIdle
    /\ NoFile
    /\ NoSearch
    /\ nbCall = NoNbCall
    /\ nbResult = NoOutcome
    /\ nbEdits = 0
    /\ nbRead = NoRead
    /\ nbExt \in {"ipynb", "other"}
    /\ \/ nbKind = "missing" /\ nbDoc = NoDoc
       \/ nbKind = "garbage" /\ nbDoc = NoDoc
       \/ /\ nbKind = "notebook"
          /\ \E cells \in SeqsUpTo(StoredCells, MaxCells - 1) :
                /\ nbDoc = Notebook(cells, "stored", 5)
                /\ nbExt = "other" => Len(cells) <= 1
    /\ nbGhost = IF nbKind = "notebook" THEN JsonLoad(nbDoc) ELSE NoDoc

InitSearch == InitIdle /\ NoFile /\ NoNotebook /\ NoSearch

NextSearch == GlobTool \/ GrepTool

SpecSearch == InitSearch /\ [][NextSearch]_vars

\* the file system before a view_tool call: as before an edit, or a file with a
\* null byte in its first 1024 bytes
InitView ==
    /\ InitIdle
    /\ NoNotebook
    /\ NoSearch
    /\ \/ NoFile
       \/ fileKind = "dir" /\ fileBytes = <<>>
       \/ fileKind = "binary" /\ fileBytes = <<>>
       \/ fileKind = "file" /\ fileBytes \in SeqsUpTo(FileChars, MaxFileLen)

NextView == ViewTool

SpecView == InitView /\ [][NextView]_vars

NextNotebook == NotebookEdit \/ NotebookRead

SpecNotebook == InitNotebook /\ [][NextNotebook]_vars

NextBash ==
    \/ BashCall
    \/ BashReturn
    \/ ProcTerminated(1)
    \/ ProcExit(1)

SpecBash == InitBash /\ [][NextBash]_vars

\* the event loop runs every callback that is ready, the operating system
\* delivers a signal it was sent, and a command that ends by itself does end
FairSpecBash ==
    /\ SpecBash
    /\ WF_vars(BashReturn)
    /\ WF_vars(ProcTerminated(1))
    /\ WF_vars(ProcExit(1))

NextBatch ==
    \/ BatchCall
    \/ TaskStart
    \/ \E i \in Slots : TaskBashReturn(i)
    \/ BatchReturn
    \/ \E i \in Slots : ProcTerminated(i)
    \/ \E i \in Slots : ProcExit(i)

SpecBatch == InitBash /\ [][NextBatch]_vars

\* before a batch of file tools: a file with some content or none, a notebook
\* with a cell, or none
InitBatchFiles ==
    /\ InitIdle
    /\ NoSearch
    /\ \/ NoFile
       \/ fileKind = "file" /\ fileBytes \in {<<"a">>, <<"b">>, <<"a", "b">>}
    /\ nbExt = "ipynb"
    /\ nbCall = NoNbCall
    /\ nbResult = NoOutcome
    /\ nbEdits = 0
    /\ nbRead = NoRead
    /\ \/ nbKind = "missing" /\ nbDoc = NoDoc
       \/ /\ nbKind = "notebook"
          /\ \E cell \in StoredCells : nbDoc = Notebook(<<cell>>, "stored", 5)
    /\ nbGhost = IF nbKind = "notebook" THEN JsonLoad(nbDoc) ELSE NoDoc

NextBatchFiles ==
    \/ BatchCallFiles
    \/ TaskStart
    \/ TaskStartFile
    \/ \E i \in Slots : TaskBashReturn(i)
    \/ BatchReturn
    \/ \E i \in Slots : ProcTerminated(i)
    \/ \E i \in Slots : ProcExit(i)

SpecBatchFiles == InitBatchFiles /\ [][NextBatchFiles]_vars

\* ------------------------------------------------------------------ claims

\* the start positions of t in s
StartPositions(s, t) == {i \in 1..Len(s) : IsAt(s, t, i)}

EditedExistingFile == editCall.preKind = "file" /\ editCall.old # <<>>

\* C1: for an existing regular file and a non-empty old_string, zero matches give
\* the not-found outcome and two or more distinct start positions give the
\* not-unique outcome, and in both cases the file is left as it was.
C1_RejectsZeroAndMultiple ==
    EditedExistingFile =>
        LET n == Cardinality(StartPositions(editCall.preBytes, editCall.old))
        IN  /\ n = 0 => editResult = "not_found" /\ fileBytes = editCall.preBytes
            /\ n >= 2 => editResult = "not_unique" /\ fileBytes = editCall.preBytes

\* C2: when old_string occurs exactly once in the file, content P ++ old ++ S, a
\* successful edit leaves the file as P ++ new ++ S.
C2_SingleSubstitution ==
    (/\ EditedExistingFile
     /\ Cardinality(StartPositions(editCall.preBytes, editCall.old)) = 1
     /\ editResult = "edited")
    => LET pre == editCall.preBytes
           j == CHOOSE i \in StartPositions(pre, editCall.old) : TRUE
       IN  fileBytes = SubSeq(pre, 1, j - 1) \o editCall.new
                       \o SubSeq(pre, j + Len(editCall.old), Len(pre))

BatchReturned == mode = "batch" /\ batchResult.kind # "none"

\* the result bash_tool gives for an invocation whose process behaves as p
BashAlone(inv, p) ==
    IF IsBanned(inv.command) THEN ErrorResult("denied")
    ELSE IF p.state = "none" THEN ErrorResult("fault")
    ELSE IF CompletesWithin(p, EffectiveBudget(inv.timeout)) THEN ProcessResult
    ELSE ErrorResult("timeout")

\* the entry execute_tool gives for invocation i run on its own
AloneEntry(i) ==
    LET inv == invs[i]
    IN  IF inv.tool_name \notin tools_map THEN ErrorEntry(inv.tool_name, "tool_not_found")
        ELSE IF ~inv.fits THEN ErrorEntry(inv.tool_name, "exec_error")
        ELSE IF inv.tool_name = "bash_tool"
             THEN SuccessEntry(inv.tool_name, BashAlone(inv, proc[i]))
        ELSE SuccessEntry(inv.tool_name, AgentResult)

ResultsInOrder ==
    /\ batchResult.kind = "results"
    /\ Len(batchResult.results) = Len(invs)
    /\ \A i \in 1..Len(invs) : batchResult.results[i] = AloneEntry(i)

\* C3: for every batch of N invocations, in whatever order they complete, the
\* results sequence has N entries and entry i is the outcome of invocation i.
C3_ResultsInSubmissionOrder == BatchReturned => ResultsInOrder

\* the same for the batches whose entries are all mappings
C3_OrderForMappings ==
    (BatchReturned /\ \A i \in 1..Len(invs) : invs[i].shape = "mapping") => ResultsInOrder

Faulty(inv) == inv.shape # "mapping" \/ (inv.tool_name \in tools_map /\ ~inv.fits)

\* C4: whatever fault arises in one invocation, batch_tool returns the aggregate
\* {description, results} with an error entry for that invocation, never an
\* aggregate error.
C4_FaultIsolated ==
    BatchReturned =>
        /\ batchResult.kind = "results"
        /\ \A i \in 1..Len(invs) :
              Faulty(invs[i]) => batchResult.results[i].status = "error"

Unknown == {i \in 1..Len(invs) : invs[i].shape = "mapping" /\ invs[i].tool_name \notin tools_map}
Succeeding == {i \in 1..Len(invs) :
                 invs[i].shape = "mapping" /\ invs[i].tool_name \in tools_map /\ invs[i].fits}

OneUnknownOthersSucceed ==
    /\ Cardinality(Unknown) = 1
    /\ Unknown \cup Succeeding = 1..Len(invs)

\* C5: in a batch where exactly one invocation names a tool outside the registry
\* and the others succeed, N entries come back, exactly the unknown tool's entry
\* has status error, and every other invocation is executed and reported as it
\* would be on its own.
C5_UnknownToolIsolated ==
    (BatchReturned /\ OneUnknownOthersSucceed) =>
        /\ batchResult.kind = "results"
        /\ Len(batchResult.results) = Len(invs)
        /\ \A i \in 1..Len(invs) :
              /\ batchResult.results[i].status = "error" <=> i \in Unknown
              /\ batchResult.results[i].tool_name = invs[i].tool_name
              /\ i \in Succeeding => batchResult.results[i] = AloneEntry(i)

C5_Witness ==
    /\ BatchReturned
    /\ OneUnknownOthersSucceed
    /\ Len(invs) = 2
    /\ \E i \in Succeeding : batchResult.results[i].result.kind = "completed"

DenyNames == {banned_commands[k] : k \in 1..Len(banned_commands)}

\* name stands in command as a whole word: no word character touches it
HasWholeWord(command, name) ==
    \E i \in 1..Len(command) :
        /\ IsAt(command, name, i)
        /\ i > 1 => command[i - 1] \notin WordChars
        /\ i + Len(name) <= Len(command) => command[i + Len(name)] \notin WordChars

\* C6: a command holding a whole-word match of a denylist name gets the
\* policy-denied error and no process is ever spawned for it.
C6_DeniedNeverSpawns ==
    \A i \in Slots :
        (bcall[i].pc # "idle" /\ \E name \in DenyNames : HasWholeWord(bcall[i].command, name))
        => /\ bcall[i].pc = "returned"
           /\ bcall[i].result = ErrorResult("denied")
           /\ spawned[i] = 0
           /\ proc[i].state = "none"

C6_Witness ==
    /\ bcall[1].command = <<" ", "n", "c">>
    /\ bcall[1].result.kind = "denied"

\* C7: when a spawned command has not completed within the effective timeout, the
\* result is a timeout error and nothing else, and the process is eventually no
\* longer running.
C7_TimeoutTerminates ==
    /\ [](bcall[1].result.kind = "timeout" => bcall[1].result.keys = {"error"})
    /\ (bcall[1].result.kind = "timeout") ~> (proc[1].state # "running")

\* the part of C7 about the returned value
C7_NoPartialOutput ==
    bcall[1].result.kind = "timeout" => bcall[1].result.keys = {"error"}

\* C8: for every timeout the caller supplies, 0 included, the budget is
\* min(t/1000, 600) seconds and so at most 600 seconds; 1800 seconds only when no
\* timeout is supplied.
C8_BudgetCapped ==
    bcall[1].pc # "idle" =>
        IF bcall[1].timeout.given
        THEN /\ bcall[1].budget = Min(bcall[1].timeout.ms, MaxTimeoutSec * MsPerSec)
             /\ bcall[1].budget <= MaxTimeoutSec * MsPerSec
        ELSE bcall[1].budget = DefaultTimeoutSec * MsPerSec

\* C9: batch_tool returns only after every invocation has settled: no invocation
\* is still running once the result is returned, and none is omitted.
C9_ReturnsAfterAllSettled ==
    BatchReturned =>
        /\ \A i \in 1..Len(invs) : tasks[i].pc \in {"done", "raised"}
        /\ batchResult.kind = "results" => Len(batchResult.results) = Len(invs)

TimedOut == {i \in 1..Len(invs) : tasks[i].pc = "done" /\ tasks[i].entry.result.kind = "timeout"}

\* a timeout sends SIGTERM to the process of the invocation that timed out only,
\* and every settled invocation has the outcome it would have alone
TimeoutIsolated ==
    /\ \A j \in 1..Len(invs) : proc[j].termSent => j \in TimedOut
    /\ \A j \in 1..Len(invs) : tasks[j].pc = "done" => tasks[j].entry = AloneEntry(j)

\* C10: when a bash_tool invocation of a batch times out, only its own process is
\* terminated, the siblings settle with the outcome they would have alone, and
\* the batch returns all N entries.
C10_TimeoutLeavesSiblings ==
    (mode = "batch" /\ TimedOut # {}) =>
        /\ TimeoutIsolated
        /\ batchResult.kind # "none" =>
              batchResult.kind = "results" /\ Len(batchResult.results) = Len(invs)

\* the part of C10 about the processes and the entries
C10_Isolation == (mode = "batch" /\ TimedOut # {}) => TimeoutIsolated


\* ------------------------------------------------------------------ notebook claims

\* the cells in memory before and after the last notebook_edit_tool call
CellsBefore ==
    IF nbCall.preKind = "notebook" THEN JsonLoad(nbCall.preDoc).cells ELSE <<>>
CellsAfter == JsonLoad(nbDoc).cells

\* C11: after a successful replace of cell i, the type of cell i is the given type,
\* or the type the cell had when none is given, and when that type is code the
\* stored cell has empty outputs and an unset execution_count.
C11_ReplaceToCodeResets ==
    nbResult.kind = "replaced" =>
        LET i == nbCall.number + 1
            type == IF nbCall.cell_type # NoType THEN nbCall.cell_type
                    ELSE CellsBefore[i].cell_type
        IN  /\ CellsAfter[i].cell_type = type
            /\ type = "code" => /\ CellsAfter[i].outputs = "empty"
                                /\ CellsAfter[i].execution_count = "None"
                                /\ nbDoc.cells[i].execution_count = "null"

\* an executed code cell was replaced without naming a type
C11_Witness ==
    /\ nbResult.kind = "replaced"
    /\ nbCall.cell_type = NoType
    /\ CellsBefore[nbCall.number + 1].cell_type = "code"
    /\ CellsBefore[nbCall.number + 1].outputs = "some"
    /\ CellsBefore[nbCall.number + 1].execution_count = "1"

\* the last call was an insert with a cell type and a cell_number >= 0 on an
\* .ipynb path
ValidInsert ==
    /\ nbCall.edit_mode = "insert"
    /\ nbExt = "ipynb"
    /\ nbCall.number >= 0
    /\ nbCall.cell_type # NoType

\* C12: such an insert succeeds on every notebook that parses and on a missing one;
\* a successful insert into n cells gives n + 1 cells; with cell_number > n the
\* new cell is last and the first n cells are unchanged; with 0 <= cell_number <= n
\* the new cell is at index cell_number and the cells from there on move up by one.
C12_InsertClampsAndShifts ==
    /\ ValidInsert /\ nbCall.preKind # "garbage" => nbResult.kind = "inserted"
    /\ nbResult.kind = "inserted" =>
        LET n == Len(CellsBefore)
            k == nbCall.number
            new == NewCell(nbCall.new_source, nbCall.cell_type)
        IN  /\ Len(CellsAfter) = n + 1
            /\ k > n => /\ CellsAfter[n + 1] = new
                        /\ SubSeq(CellsAfter, 1, n) = CellsBefore
                        /\ nbResult.number = n
            /\ k <= n => /\ CellsAfter[k + 1] = new
                         /\ SubSeq(CellsAfter, 1, k) = SubSeq(CellsBefore, 1, k)
                         /\ \A j \in (k + 1)..n : CellsAfter[j + 1] = CellsBefore[j]
                         /\ nbResult.number = k

\* an insert beyond the end of a notebook that has cells
C12_Witness ==
    /\ nbResult.kind = "inserted"
    /\ Len(CellsBefore) >= 1
    /\ nbCall.number > Len(CellsBefore)

\* an insert in front of a cell, which moves up
C12_WitnessShift ==
    /\ nbResult.kind = "inserted"
    /\ nbCall.number < Len(CellsBefore)

C13_WitnessNotFound ==
    /\ nbCall.preKind = "missing"
    /\ nbCall.edit_mode = "delete"
    /\ nbResult.kind = "not_exist"

\* C17: after a successful edit the stored document is the mutated document, a
\* read that follows returns exactly its cells, and after any sequence of
\* successful edits the stored document and the read are the initial document
\* with the edits applied in order.
C17_StoredIsMutated ==
    /\ nbResult.ok => /\ nbKind = "notebook"
                      /\ nbDoc = JsonDump(NbApply(NbLoad(nbCall.preKind, nbCall.preDoc),
                                                  nbCall.number, nbCall.new_source,
                                                  nbCall.cell_type, nbCall.edit_mode).nb)
                      /\ JsonLoad(nbDoc) = nbGhost
    /\ nbRead.kind = "notebook" /\ nbGhost # NoDoc => nbRead.nb = nbGhost

\* a read after two successful edits: the first one created the notebook
C17_Witness ==
    /\ nbRead.kind = "notebook"
    /\ nbResult.ok
    /\ nbCall.preKind = "notebook"
    /\ nbCall.preDoc.metadata = NewNotebook.metadata
    /\ Len(nbRead.nb.cells) >= 1

\* C19: a notebook_edit_tool call that returns an error leaves the storage as it
\* was: the same document, and no file where there was none.
C19_FailureLeavesStorage ==
    (nbCall # NoNbCall /\ ~nbResult.ok) =>
        /\ nbKind = nbCall.preKind
        /\ nbDoc = nbCall.preDoc

\* an index beyond the cells of an existing notebook
C19_Witness ==
    /\ ~nbResult.ok
    /\ nbResult.kind = "no_such_cell"
    /\ nbCall.preKind = "notebook"
    /\ Len(nbCall.preDoc.cells) >= 1

\* an insert without a type into a notebook that does not exist
C19_WitnessNoFile ==
    /\ nbResult.kind = "type_required"
    /\ nbCall.preKind = "missing"

WellFormedCell(c) ==
    /\ c.cell_type \in {"code", "markdown"}
    /\ c.cell_type = "markdown" => c.outputs = "absent" /\ c.execution_count = "absent"

\* C20: every cell of the stored notebook is a code or a markdown cell, and no
\* markdown cell carries outputs or an execution count.
C20_CellsStayWellFormed ==
    nbKind = "notebook" => \A i \in 1..Len(nbDoc.cells) : WellFormedCell(nbDoc.cells[i])

\* an executed code cell was replaced by a markdown cell
C20_Witness ==
    /\ nbResult.kind = "replaced"
    /\ nbCall.cell_type = "markdown"
    /\ CellsBefore[nbCall.number + 1].outputs = "some"



\* ------------------------------------------------------------------ create claims

\* a file is in a directory that exists
ParentExists == fileKind \in {"missing", "file", "dir"}

\* C18: edit_tool with an empty old_string creates: wherever the path is not a
\* directory the call succeeds, whether the file existed, was missing or had no
\* parent directory; afterwards the file holds exactly new_string and its parent
\* directory exists; the outcome is never not-found or not-unique.
C18_EmptyOldStringCreates ==
    (editCall # NoEdit /\ editCall.old = <<>> /\ editResult # "written") =>
        /\ editResult \in {"created", "fault"}
        /\ editCall.preKind # "dir" => editResult = "created"
        /\ editResult = "created" => /\ fileKind = "file"
                                     /\ fileBytes = editCall.new
                                     /\ ParentExists

\* created where the parent directory was missing
C18_Witness ==
    /\ editResult = "created"
    /\ editCall.preKind = "no_parent"
    /\ editCall.new # <<>>

\* created over a file in which the empty string would not be unique
C18_WitnessOverwrite ==
    /\ editResult = "created"
    /\ editCall.preKind = "file"
    /\ Len(editCall.preBytes) >= 2
    /\ editCall.preBytes # editCall.new



\* ------------------------------------------------------------------ dispatch claims

NamesBatchTool(i) == invs[i].shape = "mapping" /\ invs[i].tool_name = "batch_tool"

\* C15: an invocation that names batch_tool is not run: once its task has started
\* its entry is the unknown-tool error and the batch reports that entry; no entry
\* of any task holds the result of a batch run inside the batch.
C15_BatchToolNotResolvable ==
    \A i \in 1..Len(invs) :
        /\ tasks[i].entry.result.kind # "batch"
        /\ NamesBatchTool(i) /\ tasks[i].pc # "pending" =>
              tasks[i] = Done(ErrorEntry("batch_tool", "tool_not_found"))
        /\ NamesBatchTool(i) /\ batchResult.kind = "results" =>
              batchResult.results[i] = ErrorEntry("batch_tool", "tool_not_found")

\* a returned batch with an invocation of batch_tool next to one that succeeded
C15_Witness ==
    /\ batchResult.kind = "results"
    /\ \E i, j \in 1..Len(invs) :
          /\ NamesBatchTool(i)
          /\ batchResult.results[i].status = "error"
          /\ batchResult.results[j].status = "success"

Resolved(i) == invs[i].shape = "mapping" /\ invs[i].tool_name \in tools_map

\* a task only moves forward: from pending to waiting, done or raised, from
\* waiting to done; a settled task and a returned bash_tool call stay as they are
TaskMovesForward(i) ==
    /\ tasks'[i].pc = "pending" => tasks[i].pc = "pending"
    /\ tasks'[i].pc = "waiting" => tasks[i].pc \in {"pending", "waiting"}
    /\ tasks[i].pc \in {"done", "raised"} => tasks'[i] = tasks[i]
    /\ bcall[i].pc = "returned" => bcall'[i] = bcall[i]
    /\ spawned'[i] >= spawned[i]

OnceEach ==
    \A i \in 1..Len(invs) :
        /\ spawned[i] <= 1
        /\ invs[i].tool_name # "bash_tool" => spawned[i] = 0
        /\ batchResult # NoBatchResult => tasks[i].pc # "pending"
        /\ tasks[i].pc = "pending" => bcall[i].pc = "idle" /\ spawned[i] = 0
        /\ tasks[i].pc = "waiting" => bcall[i].pc = "waiting" /\ spawned[i] = 1
        /\ Resolved(i) /\ tasks[i].pc = "done" =>
              /\ tasks[i].entry.tool_name = invs[i].tool_name
              /\ tasks[i].entry.status \in {"success", "error"}
              /\ invs[i].tool_name = "bash_tool" =>
                    /\ bcall[i].pc = "returned"
                    /\ tasks[i].entry.result = bcall[i].result
                    /\ bcall[i].result.kind \in {"denied", "fault"} => spawned[i] = 0
                    /\ bcall[i].result.kind \in {"timeout", "completed"} => spawned[i] = 1
        /\ batchResult.kind = "results" =>
              /\ Len(batchResult.results) = Len(invs)
              /\ batchResult.results[i] = tasks[i].entry

\* C16: nothing is retried: the tool of a resolved invocation is started once and
\* gives one entry, which does not change any more; a bash_tool invocation spawns
\* at most one process, none when it is denied or cannot be spawned, and its
\* result is reported once.
C16_NoRetry ==
    /\ []OnceEach
    /\ [][\A i \in 1..Len(invs) : Len(invs') = Len(invs) => TaskMovesForward(i)]_vars

\* a returned batch with a bash_tool that timed out and one that was denied
C16_Witness ==
    /\ batchResult.kind = "results"
    /\ \E i, j \in 1..Len(invs) :
          /\ batchResult.results[i].result.kind = "timeout" /\ spawned[i] = 1
          /\ batchResult.results[j].result.kind = "denied" /\ spawned[j] = 0



\* ------------------------------------------------------------------ search claims

\* the raw matches of the last search, and the ids of the paths it returned
RawMatches == Matching(srch.candidates)
Returned == srch.result.filenames
ReturnedIds == {Returned[i].id : i \in 1..Len(Returned)}

\* C14: glob_tool and grep_tool return at most 100 paths, each a raw match and
\* none twice, in order of non-increasing modification time with files that are
\* missing at the sort counted as time 0; no raw match that is left out is newer
\* than a returned one; numFiles is the number returned; truncated holds exactly
\* when there are more than 100 raw matches.
C14_NewestHundredSorted ==
    srch.result.kind = "result" =>
        LET raw == RawMatches
            ret == Returned
            ids == ReturnedIds
            oldest == SortKey(ret[Len(ret)])
        IN  /\ Len(ret) = Min(Len(raw), MaxResults)
            /\ Len(ret) <= MaxResults
            /\ Cardinality(ids) = Len(ret)
            /\ ids \subseteq {raw[j].id : j \in 1..Len(raw)}
            /\ \A j \in 1..Len(raw) : raw[j] = srch.candidates[raw[j].id]
            /\ \A i \in 1..Len(ret) : ret[i] = srch.candidates[ret[i].id]
            /\ \A i \in 1..(Len(ret) - 1) : SortKey(ret[i]) >= SortKey(ret[i + 1])
            /\ \A j \in 1..Len(raw) : raw[j].id \notin ids => SortKey(raw[j]) <= oldest
            /\ srch.result.numFiles = Len(ret)
            /\ srch.result.truncated <=> Len(raw) > MaxResults

\* more than 100 raw matches, the newest of them after the hundredth, and a
\* missing file among them
C14_Witness ==
    LET raw == RawMatches
        ids == ReturnedIds
    IN  /\ srch.result.kind = "result"
        /\ srch.result.truncated
        /\ srch.result.numFiles = MaxResults
        /\ \E j \in (MaxResults + 1)..Len(raw) : SortKey(raw[j]) = 2 /\ raw[j].id \in ids
        /\ \E j \in 1..Len(raw) : ~raw[j].exists
        /\ SortKey(raw[1]) = 1

\* exactly 100 raw matches: all returned, not truncated
C14_WitnessExactly ==
    /\ srch.tool = "grep_tool_walk"
    /\ Len(RawMatches) = MaxResults
    /\ srch.result.numFiles = MaxResults
    /\ ~srch.result.truncated



\* ------------------------------------------------------------------ delete and replace claims

\* C21: a delete succeeds exactly when the notebook parses, the path ends in
\* .ipynb and 0 <= cell_number < cell count; it then leaves one cell less, the
\* cells before the index as they were and the cells after it moved down by one,
\* and reports the type of the removed cell.
C21_DeleteRemovesOne ==
    nbCall.edit_mode = "delete" =>
        LET n == Len(CellsBefore)
            k == nbCall.number
        IN  /\ nbResult.kind = "deleted" <=>
                  /\ nbExt = "ipynb" /\ nbCall.preKind = "notebook"
                  /\ 0 <= k /\ k < n
            /\ nbResult.kind = "deleted" =>
                  /\ Len(CellsAfter) = n - 1
                  /\ SubSeq(CellsAfter, 1, k) = SubSeq(CellsBefore, 1, k)
                  /\ \A j \in (k + 2)..n : CellsAfter[j - 1] = CellsBefore[j]
                  /\ nbResult.cell_type = CellsBefore[k + 1].cell_type
                  /\ nbDoc.metadata = nbCall.preDoc.metadata

\* the first of two cells of different types was deleted
C21_Witness ==
    /\ nbResult.kind = "deleted"
    /\ nbCall.number = 0
    /\ Len(CellsBefore) = 2
    /\ CellsBefore[1].cell_type # CellsBefore[2].cell_type

\* C22: a successful replace at index i keeps the cell count, every other cell,
\* the metadata and format of the document and the metadata of cell i; the source
\* of cell i is new_source split into lines, its type the given cell_type, or the
\* type it had when none is given.
C22_ReplaceChangesOnlyCell ==
    nbResult.kind = "replaced" =>
        LET i == nbCall.number + 1
        IN  /\ Len(CellsAfter) = Len(CellsBefore)
            /\ \A j \in 1..Len(CellsBefore) : j # i => CellsAfter[j] = CellsBefore[j]
            /\ nbDoc.metadata = nbCall.preDoc.metadata
            /\ nbDoc.nbformat = nbCall.preDoc.nbformat
            /\ nbDoc.nbformat_minor = nbCall.preDoc.nbformat_minor
            /\ CellsAfter[i].metadata = CellsBefore[i].metadata
            /\ CellsAfter[i].source = Split(nbCall.new_source)
            /\ CellsAfter[i].cell_type =
                  IF nbCall.cell_type # NoType THEN nbCall.cell_type
                  ELSE CellsBefore[i].cell_type

\* a tagged cell next to another cell was replaced and given another type
C22_Witness ==
    /\ nbResult.kind = "replaced"
    /\ Len(CellsBefore) = 2
    /\ CellsBefore[nbCall.number + 1].metadata = "tagged"
    /\ nbCall.cell_type # NoType
    /\ nbCall.cell_type # CellsBefore[nbCall.number + 1].cell_type
    /\ Len(CellsAfter[nbCall.number + 1].source) = 2



\* ------------------------------------------------------------------ fallback walk claims

WalkReturned == srch.tool = "grep_tool_walk"

\* the candidates that can be read and in which the pattern is found
ReadableAndMatches(f) == f.hit = "match"
ReadableMatchIds ==
    {srch.candidates[i].id : i \in {j \in 1..Len(srch.candidates) :
                                       ReadableAndMatches(srch.candidates[j])}}
UnreadableIds ==
    {srch.candidates[i].id : i \in {j \in 1..Len(srch.candidates) :
                                       srch.candidates[j].hit = "unreadable"}}

\* C26 as stated: the fallback walk returns a result, without an error field, that
\* contains every readable file in which the pattern is found.
C26_EveryReadableMatchReturned ==
    WalkReturned =>
        /\ srch.result.kind = "result"
        /\ ReadableMatchIds \subseteq ReturnedIds

\* C26, amended: the fallback walk returns a result, without an error field; the
\* result is the one the same search gives without the unreadable files, so it
\* holds no unreadable file, holds every readable file in which the pattern is found
\* when there are at most 100 of them, and the 100 that the cap keeps otherwise.
C26_UnreadableOnlyRemovesItself ==
    WalkReturned =>
        LET ids == ReturnedIds
            readable == ReadableMatchIds
            IsReadable(f) == f.hit # "unreadable"
            without == SelectSeq(SelectSeq(srch.candidates, IsReadable), ReadableAndMatches)
        IN  /\ srch.result.kind = "result"
            /\ ids \subseteq readable
            /\ ids \cap UnreadableIds = {}
            /\ Cardinality(readable) <= MaxResults => ids = readable
            /\ Cardinality(readable) > MaxResults => Cardinality(ids) = MaxResults
            /\ srch.result = SearchResult(without)

\* an unreadable file is walked before a file that matches, which is returned
C26_Witness ==
    /\ WalkReturned
    /\ Len(srch.candidates) >= 2
    /\ srch.candidates[1].hit = "unreadable"
    /\ \E i \in 2..Len(srch.candidates) : srch.candidates[i].id \in ReturnedIds
    /\ srch.result.kind = "result"



\* ------------------------------------------------------------------ view claims

ViewedFile == viewed.result.kind \in {"beyond_eof", "empty_file", "lines"}
LineCount == Len(ReadLines(ReadText(fileBytes)))
OffsetUsed == IF viewed.offset.given /\ viewed.offset.n > 0 THEN viewed.offset.n ELSE 0

\* C25: for a text file, view_tool reports an empty read exactly when the file has
\* no content, and reports a position beyond the end exactly when the file has
\* content and the offset is at or beyond its line count.
C25_EmptyAndBeyondApart ==
    ViewedFile =>
        /\ viewed.result.kind = "empty_file" <=> fileBytes = <<>>
        /\ viewed.result.kind = "beyond_eof" <=>
              (fileBytes # <<>> /\ OffsetUsed >= LineCount)

\* an empty file was viewed from its start
C25_Witness ==
    /\ ViewedFile
    /\ fileKind = "file"
    /\ fileBytes = <<>>
    /\ ~viewed.offset.given
    /\ ~viewed.limit.given
    /\ viewed.result.kind = "beyond_eof"



\* ------------------------------------------------------------------ status claims

\* what a tool returns when it ended in a failure condition
FailureResults == {"denied", "timeout", "fault"}

\* C23: in the results of a batch, the entry of a tool that ended in a failure
\* condition has status error, and an entry with status success holds the result
\* of an operation that succeeded.
C23_StatusTellsFailure ==
    batchResult.kind = "results" =>
        \A i \in 1..Len(batchResult.results) :
            LET entry == batchResult.results[i]
            IN  /\ entry.result.kind \in FailureResults => entry.status = "error"
                /\ entry.status = "success" => entry.result.kind \notin FailureResults

\* a batch returned the entry of a denied command with status success
C23_Witness ==
    /\ batchResult.kind = "results"
    /\ \E i \in 1..Len(batchResult.results) :
          /\ batchResult.results[i].tool_name = "bash_tool"
          /\ batchResult.results[i].result.kind = "denied"
          /\ batchResult.results[i].status = "success"



\* ------------------------------------------------------------------ same-file claims

\* the file after one invocation run on its own: edit_tool and replace_tool as
\* functions of the file before
FileAfter(file, inv) ==
    IF ~IsFileInvocation(inv) \/ file.kind = "dir" THEN file
    ELSE IF inv.tool_name = "replace_tool"
    THEN [kind |-> "file", bytes |-> WriteText(inv.input.content)]
    ELSE IF inv.tool_name # "edit_tool" THEN file
    ELSE IF inv.input.old_string = <<>>
    THEN [kind |-> "file", bytes |-> WriteText(inv.input.new_string)]
    ELSE IF file.kind # "file" THEN file
    ELSE LET content == ReadText(file.bytes)
         IN  IF Count(content, inv.input.old_string) # 1 THEN file
             ELSE [kind |-> "file",
                   bytes |-> WriteText(ReplaceFirst(content, inv.input.old_string,
                                                    inv.input.new_string))]

\* the stored notebook after one invocation run on its own
NotebookAfter(store, inv) ==
    IF ~IsFileInvocation(inv) \/ inv.tool_name # "notebook_edit_tool" THEN store
    ELSE NbStored(NbOutcome("ipynb", store.kind, store.doc, inv.input.cell_number,
                            inv.input.new_source, inv.input.cell_type,
                            inv.input.edit_mode),
                  store.kind, store.doc)

\* the first n invocations run one after the other, in submission order
RECURSIVE FileSequential(_, _)
FileSequential(file, n) ==
    IF n = 0 THEN file ELSE FileAfter(FileSequential(file, n - 1), invs[n])

RECURSIVE NotebookSequential(_, _)
NotebookSequential(store, n) ==
    IF n = 0 THEN store ELSE NotebookAfter(NotebookSequential(store, n - 1), invs[n])

\* C24: while a batch runs and when it has returned, the file and the notebook are
\* what running the invocations started so far gives when they are run one after
\* the other in submission order on the file and the notebook of the time of the
\* call; once all have started, that is the sequential result of the whole batch.
C24_SameFileSequential ==
    mode = "batch" =>
        /\ [kind |-> fileKind, bytes |-> fileBytes] =
              FileSequential([kind |-> atCall.fileKind, bytes |-> atCall.fileBytes],
                             nextTask - 1)
        /\ [kind |-> nbKind, doc |-> nbDoc] =
              NotebookSequential([kind |-> atCall.nbKind, doc |-> atCall.nbDoc],
                                 nextTask - 1)
        /\ batchResult # NoBatchResult => nextTask = Len(invs) + 1

\* a returned batch of two different edits of the same file that both went
\* through, the second on the text the first had written
C24_Witness ==
    /\ batchResult.kind = "results"
    /\ Len(invs) = 2
    /\ invs[1].tool_name = "edit_tool" /\ invs[2].tool_name = "edit_tool"
    /\ invs[1] # invs[2]
    /\ batchResult.results[1].result.kind = "edited"
    /\ batchResult.results[2].result.kind = "edited"
    /\ atCall.fileKind = "file"

\* a returned batch of two edits of the same notebook that both went through
C24_WitnessNotebook ==
    /\ batchResult.kind = "results"
    /\ Len(invs) = 2
    /\ invs[1].tool_name = "notebook_edit_tool" /\ invs[2].tool_name = "notebook_edit_tool"
    /\ batchResult.results[1].result.kind = "inserted"
    /\ batchResult.results[2].result.kind = "replaced"
    /\ atCall.nbKind = "missing"


====
